---- MODULE Spec2Model ----
(***************************************************************************)
(* StructuraLens: the App component's state (file, preview, result,       *)
(* report, error, the two busy flags), its handlers (handleFileChange,    *)
(* handleAnalyze, handleSolve, updateDimension, updateLoad, New Analysis) *)
(* and the two remote calls they await.                                    *)
(*                                                                         *)
(* Numbers.  A number n of the model is the program's n/1024.  Binary     *)
(* fractions make every sum and difference the handlers compute exact in  *)
(* IEEE doubles, so the integers follow the program's arithmetic step for *)
(* step.  pivotX - 0.001 lies strictly between (p-2)/1024 and (p-1)/1024  *)
(* for pivotX = p/1024, so the program's x >= pivotX - 0.001 is           *)
(* x >= p - EPS with EPS = 1, and x < pivotX - 0.001 is x < p - EPS.      *)
(* Math.max() of no argument, -Infinity, is NegInfinity.                  *)
(*                                                                         *)
(* Objects.  result.structure is an object holding totalLength and        *)
(* references to three arrays.  The spread {...result.structure} copies   *)
(* the references, not the arrays, so every structure object made from    *)
(* one analysis shares its arrays: heap maps the address of that triple   *)
(* of arrays to its contents and a structure object is                    *)
(* [totalLength, arr], arr an address of heap.                             *)
(***************************************************************************)
EXTENDS Integers, Sequences, FiniteSets, TLC

VARIABLES
    hasApiKey,      \* !!process.env.API_KEY
    file,           \* useState<File | null>
    previewUrl,     \* useState<string | null>
    isAnalyzing,    \* useState(false)
    isSolving,      \* useState(false)
    result,         \* useState<AnalysisResult | null>
    report,         \* useState<string | null>
    error,          \* useState<string | null>
    heap,           \* the arrays the live structure objects refer to
    analyzeReq,     \* the handleAnalyze call in flight, if any
    solveReq,       \* the handleSolve call in flight, if any
    nAnalyses,      \* analyze requests issued so far
    nEdits,         \* local edits applied to the stored result so far
    last,           \* the handler that ran last, with its arguments
    old,            \* the state that handler started from
    origin,         \* the structure of the stored result as it was received
    prev            \* the dimension edit before the last one, if both were

vars == <<hasApiKey, file, previewUrl, isAnalyzing, isSolving, result, report,
          error, heap, analyzeReq, solveReq, nAnalyses, nEdits, last, old,
          origin, prev>>

----------------------------------------------------------------------------
(* Bounds of the model *)

MaxAnalyses == 2
MaxEdits == 2
MaxLengthEdits == 3
MaxUIEdits == 1
MaxNewValue == 3
MaxMagnitude == 1
PosBound == 9

(* Program constants: the tolerance 0.001 on the model's grid of 1/1024,
   and -Infinity. *)

EPS == 1
NegInfinity == -1000000

----------------------------------------------------------------------------
(* null *)

Null == "null"
NoResult == [isNull |-> TRUE]
NoReport == [isNull |-> TRUE]
NoRequest == [isNull |-> TRUE]
NoStructure == [isNull |-> TRUE]
NoPrev == [isNull |-> TRUE]

Files == {"f1", "f2"}

(* URL.createObjectURL(selectedFile) *)
createObjectURL(f) == <<"blob", f>>

NoPreview == <<>>

----------------------------------------------------------------------------
(* types.ts *)

BeamNode(id, position) == [id |-> id, position |-> position]

BeamLoad(id, type, start, end, magnitude) ==
    [id |-> id, type |-> type, start |-> start, end |-> end,
     magnitude |-> magnitude]

Dimension(id, start, end, value) ==
    [id |-> id, start |-> start, end |-> end, value |-> value]

BeamStructure(totalLength, nodes, loads, dimensions) ==
    [totalLength |-> totalLength, nodes |-> nodes, loads |-> loads,
     dimensions |-> dimensions]

(* The structures the image-analysis call may answer with (JSON.parse of the
   model's text: nothing but the schema constrains them). *)

(* The spec's example, two spans: contiguous dimensions aligned to the nodes. *)
ExampleStructure ==
    BeamStructure(5,
        <<BeamNode("A", 0), BeamNode("B", 3), BeamNode("C", 5)>>,
        <<BeamLoad("w1", "DISTRIBUTED", 0, 5, 1),
          BeamLoad("P1", "POINT", 3, 3, 1)>>,
        <<Dimension("L1", 0, 3, 3), Dimension("L2", 3, 5, 2)>>)

(* Geometry within the tolerance of L1's end (3): a node, a dimension start,
   a load start and a load end at 2, and geometry well before it. *)
ToleranceStructure ==
    BeamStructure(2,
        <<BeamNode("A", 0), BeamNode("B", 2), BeamNode("C", 1)>>,
        <<BeamLoad("w1", "DISTRIBUTED", 0, 2, 1),
          BeamLoad("M1", "MOMENT", 2, 2, 1),
          BeamLoad("P2", "POINT", 1, 1, 0)>>,
        <<Dimension("L1", 0, 3, 3), Dimension("L2", 2, 4, 2)>>)

(* An answer whose numbers do not agree with each other: no node at all, a
   dimension whose end is not start + value, a totalLength of its own. *)
InconsistentStructure ==
    BeamStructure(4,
        <<>>,
        <<BeamLoad("P1", "POINT", 4, 4, 1)>>,
        <<Dimension("L1", 0, 4, 3)>>)

(* An answer in which two dimensions carry one id (the schema requires no
   id, and nothing makes the ids distinct). *)
DuplicateIdStructure ==
    BeamStructure(3,
        <<BeamNode("A", 0), BeamNode("B", 2), BeamNode("C", 3)>>,
        <<BeamLoad("P1", "POINT", 2, 2, 1)>>,
        <<Dimension("L1", 0, 2, 2), Dimension("L1", 2, 3, 1)>>)

Structures ==
    {ExampleStructure, ToleranceStructure, InconsistentStructure,
     DuplicateIdStructure}

DimIds == {"L1", "L2"}
LoadIds == {"w1", "P1", "M1", "P2"}
UnknownId == "none"
NewValues == -1 .. MaxNewValue
LoadFields == {"magnitude", "end"}
LoadValues == 0 .. MaxMagnitude

----------------------------------------------------------------------------
(* findIndex, were a missing id to give the last index (an index of -1
   read from the end of the array). *)
findIndexOrLast(arr, id) ==
    IF \E i \in 1 .. Len(arr) : arr[i].id = id
    THEN CHOOSE i \in 1 .. Len(arr) :
            arr[i].id = id /\ \A j \in 1 .. (i - 1) : arr[j].id # id
    ELSE Len(arr)

(* Array.prototype.findIndex: the first index whose element has the id; the
   model's sequences start at 1, so JavaScript's -1 is 0 here. *)
findIndex(arr, id) ==
    IF \E i \in 1 .. Len(arr) : arr[i].id = id
    THEN CHOOSE i \in 1 .. Len(arr) :
            arr[i].id = id /\ \A j \in 1 .. (i - 1) : arr[j].id # id
    ELSE 0

(* Math.max(...xs): -Infinity for no argument. *)
MathMax(xs) ==
    IF Len(xs) = 0 THEN NegInfinity
    ELSE CHOOSE m \in {xs[i] : i \in 1 .. Len(xs)} :
            \A i \in 1 .. Len(xs) : xs[i] <= m

(* The edited dimension, were its end set to the new value alone. *)
EditedDimensionFromZero(oldDim, newValue) ==
    [oldDim EXCEPT !.value = newValue, !.end = newValue]

(* { ...oldDim, value: newValue, end: oldDim.start + newValue } *)
EditedDimension(oldDim, newValue) ==
    [oldDim EXCEPT !.value = newValue, !.end = oldDim.start + newValue]

(* The dimension step, were it without the test i !== dimIndex. *)
ShiftDimensionAll(d, i, dimIndex, pivotX, diff) ==
    IF d.start >= pivotX - EPS
    THEN [d EXCEPT !.start = @ + diff, !.end = @ + diff]
    ELSE d

(* The body of dimensions.forEach((d, i) => ...) *)
ShiftDimension(d, i, dimIndex, pivotX, diff) ==
    IF i # dimIndex /\ d.start >= pivotX - EPS
    THEN [d EXCEPT !.start = @ + diff, !.end = @ + diff]
    ELSE d

(* The node step, were its test n.position > pivotX - 0.001. *)
ShiftNodeStrict(n, pivotX, diff) ==
    IF n.position > pivotX - EPS
    THEN [n EXCEPT !.position = @ + diff]
    ELSE n

(* The node step, were every node shifted. *)
ShiftNodeAlways(n, pivotX, diff) == [n EXCEPT !.position = @ + diff]

(* The body of nodes.forEach(n => ...) *)
ShiftNode(n, pivotX, diff) ==
    IF n.position >= pivotX - EPS
    THEN [n EXCEPT !.position = @ + diff]
    ELSE n

(* The load step, were its first test l.start > pivotX - 0.001. *)
ShiftLoadStrict(l, pivotX, diff) ==
    IF l.start > pivotX - EPS
    THEN [l EXCEPT !.start = @ + diff, !.end = @ + diff]
    ELSE IF l.end >= pivotX - EPS /\ l.start < pivotX
         THEN [l EXCEPT !.end = @ + diff]
         ELSE l

(* The body of loads.forEach(l => ...) *)
ShiftLoad(l, pivotX, diff) ==
    IF l.start >= pivotX - EPS
    THEN [l EXCEPT !.start = @ + diff, !.end = @ + diff]
    ELSE IF l.end >= pivotX - EPS /\ l.start < pivotX
         THEN [l EXCEPT !.end = @ + diff]
         ELSE l

(* What updateDimension leaves in the three arrays of the structure (it
   writes into the arrays result.structure refers to), given their contents
   a and the index of the dimension found. *)
ShiftedArrays(a, dimIndex, newValue) ==
    LET oldDim == a.dimensions[dimIndex]
        diff == newValue - oldDim.value
        pivotX == oldDim.end
        dims1 == [a.dimensions EXCEPT ![dimIndex] = EditedDimension(oldDim, newValue)]
    IN  [nodes |-> [i \in 1 .. Len(a.nodes) |-> ShiftNode(a.nodes[i], pivotX, diff)],
         loads |-> [i \in 1 .. Len(a.loads) |-> ShiftLoad(a.loads[i], pivotX, diff)],
         dimensions |-> [i \in 1 .. Len(dims1) |->
                            ShiftDimension(dims1[i], i, dimIndex, pivotX, diff)]]

(* The total length, were it read off the last node. *)
TotalLengthOfLastNode(nodes) ==
    IF Len(nodes) = 0 THEN NegInfinity ELSE nodes[Len(nodes)].position

(* Math.max(...newStructure.nodes.map(n => n.position)) *)
RecalculatedTotalLength(nodes) ==
    MathMax([i \in 1 .. Len(nodes) |-> nodes[i].position])

(* The edited load, were the value always written to magnitude. *)
EditedLoadMagnitude(l, field, value) == [l EXCEPT !.magnitude = value]

(* { ...loads[idx], [field]: value } *)
EditedLoad(l, field, value) == [l EXCEPT ![field] = value]

(* What updateLoad leaves in the arrays. *)
LoadArrays(a, idx, field, value) ==
    [a EXCEPT !.loads[idx] = EditedLoad(a.loads[idx], field, value)]

(* The structure read through a reference to a structure object: its own
   totalLength and whatever its arrays hold now. *)
Deref(h, s) ==
    BeamStructure(s.totalLength, h[s.arr].nodes, h[s.arr].loads,
                  h[s.arr].dimensions)

(* JSON.parse(response.text): fresh arrays, at a fresh address. *)
ArraysOf(s) == [nodes |-> s.nodes, loads |-> s.loads, dimensions |-> s.dimensions]

----------------------------------------------------------------------------
(* The state a handler starts from, kept to state what the handler did. *)
Snapshot ==
    [result |-> result,
     structure |-> IF result = NoResult THEN NoStructure
                   ELSE Deref(heap, result.structure),
     file |-> file, previewUrl |-> previewUrl, report |-> report,
     error |-> error, analyzeReq |-> analyzeReq, solveReq |-> solveReq]

(* The handler that ran: its name, the id and field it was called with and
   the value it applied (0 when it applied none). *)
Handler(op, id, field, value) ==
    [op |-> op, id |-> id, field |-> field, value |-> value]

(* The arrays some reference can still reach: those of the stored result
   and of the result the running handler started from. *)
Reachable(h, r, o) ==
    LET roots == {x.structure.arr : x \in {y \in {r, o} : y # NoResult}}
    IN  [a \in (DOMAIN h) \cap roots |-> h[a]]

(* The handler that ran last was updateDimension and it applied an edit. *)
EditFound ==
    /\ last.op = "updateDimension"
    /\ old.result # NoResult
    /\ \E i \in 1 .. Len(old.structure.dimensions) :
          old.structure.dimensions[i].id = last.id

(* Every position the arrays hold lies inside the model's window. *)
InWindow(a) ==
    /\ \A i \in 1 .. Len(a.nodes) : a.nodes[i].position \in -PosBound .. PosBound
    /\ \A i \in 1 .. Len(a.loads) :
          /\ a.loads[i].start \in -PosBound .. PosBound
          /\ a.loads[i].end \in -PosBound .. PosBound
    /\ \A i \in 1 .. Len(a.dimensions) :
          /\ a.dimensions[i].start \in -PosBound .. PosBound
          /\ a.dimensions[i].end \in -PosBound .. PosBound

----------------------------------------------------------------------------
Init ==
    /\ hasApiKey \in BOOLEAN
    /\ file = Null
    /\ previewUrl = NoPreview
    /\ isAnalyzing = FALSE
    /\ isSolving = FALSE
    /\ result = NoResult
    /\ report = NoReport
    /\ error = Null
    /\ heap = << >>
    /\ analyzeReq = NoRequest
    /\ solveReq = NoRequest
    /\ nAnalyses = 0
    /\ nEdits = 0
    /\ last = Handler("init", "", "", 0)
    /\ old = [result |-> NoResult, structure |-> NoStructure, file |-> Null,
              previewUrl |-> NoPreview, report |-> NoReport, error |-> Null,
              analyzeReq |-> NoRequest, solveReq |-> NoRequest]
    /\ origin = NoStructure
    /\ prev = NoPrev

(* The file input of the upload view: onChange={handleFileChange}.  f = Null
   is a change event with no file (the dialog was cancelled). *)
handleFileChange(f) ==
    /\ result = NoResult
    /\ IF f # Null
       THEN /\ file' = f
            /\ previewUrl' = createObjectURL(f)
            /\ result' = NoResult
            /\ report' = NoReport
            /\ error' = Null
       ELSE UNCHANGED <<file, previewUrl, result, report, error>>
    /\ last' = Handler("handleFileChange", f, "", 0)
    /\ old' = Snapshot
    /\ prev' = NoPrev
    /\ UNCHANGED origin
    /\ heap' = Reachable(heap, result', result)
    /\ UNCHANGED <<hasApiKey, isAnalyzing, isSolving, analyzeReq, solveReq,
                   nAnalyses, nEdits>>

(* The 'Parameterize & Analyze' button: shown in the upload view when a file
   is selected, disabled while isAnalyzing or without an API key.  The
   handler starts the FileReader and returns (readAsDataURL does not throw
   for a File, so the outer catch is never entered). *)
handleAnalyze ==
    /\ result = NoResult
    /\ file # Null
    /\ ~isAnalyzing
    /\ hasApiKey
    /\ nAnalyses < MaxAnalyses
    /\ isAnalyzing' = TRUE
    /\ error' = Null
    /\ analyzeReq' = [file |-> file, phase |-> "reading"]
    /\ nAnalyses' = nAnalyses + 1
    /\ last' = Handler("handleAnalyze", file, "", 0)
    /\ old' = Snapshot
    /\ prev' = NoPrev
    /\ UNCHANGED origin
    /\ heap' = Reachable(heap, result, result)
    /\ UNCHANGED <<hasApiKey, file, previewUrl, isSolving, result, report,
                   solveReq, nEdits>>

(* reader.onloadend.  With the file read, analyzeBeamImage is called and
   awaited.  With the read failed reader.result is null, .split throws
   outside the inner try, and nothing of the state is set again. *)
readerLoadEnd(ok) ==
    /\ analyzeReq # NoRequest
    /\ analyzeReq.phase = "reading"
    /\ analyzeReq' = IF ok THEN [analyzeReq EXCEPT !.phase = "calling"]
                     ELSE NoRequest
    /\ last' = Handler("onloadend", analyzeReq.file, "", 0)
    /\ old' = Snapshot
    /\ prev' = NoPrev
    /\ UNCHANGED origin
    /\ heap' = Reachable(heap, result, result)
    /\ UNCHANGED <<hasApiKey, file, previewUrl, isAnalyzing, isSolving, result,
                   report, error, solveReq, nAnalyses, nEdits>>

(* analyzeBeamImage resolves with s: setResult(analysis), then finally. *)
analyzeResolve(s) ==
    /\ analyzeReq # NoRequest
    /\ analyzeReq.phase = "calling"
    /\ result' = [structure |-> [totalLength |-> s.totalLength, arr |-> nAnalyses],
                  latexCode |-> <<"tikz", analyzeReq.file>>]
    /\ heap' = Reachable((nAnalyses :> ArraysOf(s)) @@ heap, result', result)
    /\ isAnalyzing' = FALSE
    /\ analyzeReq' = NoRequest
    /\ nEdits' = 0
    /\ last' = Handler("analyzeResolve", analyzeReq.file, "", 0)
    /\ old' = Snapshot
    /\ origin' = s
    /\ prev' = NoPrev
    /\ UNCHANGED <<hasApiKey, file, previewUrl, isSolving, report, error,
                   solveReq, nAnalyses>>

(* analyzeBeamImage rejects (the request failed, the answer had no text or
   was not JSON): setError, then finally. *)
analyzeReject ==
    /\ analyzeReq # NoRequest
    /\ analyzeReq.phase = "calling"
    /\ error' = "Analysis failed. Please check your API key or try a clearer image."
    /\ isAnalyzing' = FALSE
    /\ analyzeReq' = NoRequest
    /\ last' = Handler("analyzeReject", analyzeReq.file, "", 0)
    /\ old' = Snapshot
    /\ prev' = NoPrev
    /\ UNCHANGED origin
    /\ heap' = Reachable(heap, result, result)
    /\ UNCHANGED <<hasApiKey, file, previewUrl, isSolving, result, report,
                   solveReq, nAnalyses, nEdits>>

(* The 'Generate Mathematical Solution' button of the result view, disabled
   while isSolving or without an API key.  generateStructuralReport sends
   the structure as it is at the click: the request in flight is known by
   the arrays of that structure and the number of edits they had taken. *)
handleSolve ==
    /\ result # NoResult
    /\ ~isSolving
    /\ hasApiKey
    /\ isSolving' = TRUE
    /\ solveReq' = [arr |-> result.structure.arr, edits |-> nEdits]
    /\ last' = Handler("handleSolve", "", "", 0)
    /\ old' = Snapshot
    /\ prev' = NoPrev
    /\ UNCHANGED origin
    /\ heap' = Reachable(heap, result, result)
    /\ UNCHANGED <<hasApiKey, file, previewUrl, isAnalyzing, result, report,
                   error, analyzeReq, nAnalyses, nEdits>>

(* generateStructuralReport resolves: response.text || "Analysis failed." *)
solveResolve(text) ==
    /\ solveReq # NoRequest
    /\ report' = [text |-> IF text = "" THEN "Analysis failed." ELSE text,
                  request |-> solveReq]
    /\ isSolving' = FALSE
    /\ solveReq' = NoRequest
    /\ last' = Handler("solveResolve", "", "", 0)
    /\ old' = Snapshot
    /\ prev' = NoPrev
    /\ UNCHANGED origin
    /\ heap' = Reachable(heap, result, result)
    /\ UNCHANGED <<hasApiKey, file, previewUrl, isAnalyzing, result, error,
                   analyzeReq, nAnalyses, nEdits>>

(* The rejection handler, were it to drop the stored result as well. *)
solveRejectDropsResult ==
    /\ solveReq # NoRequest
    /\ error' = "Failed to generate report."
    /\ isSolving' = FALSE
    /\ solveReq' = NoRequest
    /\ result' = NoResult
    /\ last' = Handler("solveReject", "", "", 0)
    /\ old' = Snapshot
    /\ prev' = NoPrev
    /\ UNCHANGED origin
    /\ heap' = Reachable(heap, result', result)
    /\ UNCHANGED <<hasApiKey, file, previewUrl, isAnalyzing, report,
                   analyzeReq, nAnalyses, nEdits>>

(* generateStructuralReport rejects: setError, then finally. *)
solveReject ==
    /\ solveReq # NoRequest
    /\ error' = "Failed to generate report."
    /\ isSolving' = FALSE
    /\ solveReq' = NoRequest
    /\ last' = Handler("solveReject", "", "", 0)
    /\ old' = Snapshot
    /\ prev' = NoPrev
    /\ UNCHANGED origin
    /\ heap' = Reachable(heap, result, result)
    /\ UNCHANGED <<hasApiKey, file, previewUrl, isAnalyzing, result, report,
                   analyzeReq, nAnalyses, nEdits>>

(* The 'New Analysis' button, shown while result is set. *)
newAnalysis ==
    /\ result # NoResult
    /\ result' = NoResult
    /\ file' = Null
    /\ previewUrl' = NoPreview
    /\ report' = NoReport
    /\ last' = Handler("newAnalysis", "", "", 0)
    /\ old' = Snapshot
    /\ origin' = NoStructure
    /\ prev' = NoPrev
    /\ heap' = Reachable(heap, result', result)
    /\ UNCHANGED <<hasApiKey, isAnalyzing, isSolving, error, analyzeReq,
                   solveReq, nAnalyses, nEdits>>

(* updateDimension(dimId, newValue).  It returns at once without a result
   or without a dimension of that id; otherwise it writes the edit into the
   arrays of result.structure and sets result to a new object around a new
   structure object that refers to the same arrays. *)
updateDimension(dimId, newValue) ==
    LET found == /\ result # NoResult
                 /\ findIndex(heap[result.structure.arr].dimensions, dimId) # 0
    IN
    /\ IF found
       THEN LET arr == result.structure.arr
                dimIndex == findIndex(heap[arr].dimensions, dimId)
                a == ShiftedArrays(heap[arr], dimIndex, newValue)
            IN  /\ nEdits < MaxLengthEdits
                /\ InWindow(a)
                /\ nEdits' = nEdits + 1
                /\ result' = [result EXCEPT !.structure =
                                [totalLength |-> RecalculatedTotalLength(a.nodes),
                                 arr |-> arr]]
                /\ heap' = Reachable([heap EXCEPT ![arr] = a], result', result)
       ELSE /\ UNCHANGED <<result, nEdits>>
            /\ heap' = Reachable(heap, result, result)
    /\ last' = Handler("updateDimension", dimId, "", IF found THEN newValue ELSE 0)
    /\ old' = Snapshot
    /\ prev' = IF found /\ EditFound THEN [last |-> last, structure |-> old.structure]
                ELSE NoPrev
    /\ UNCHANGED origin
    /\ UNCHANGED <<hasApiKey, file, previewUrl, isAnalyzing, isSolving, report,
                   error, analyzeReq, solveReq, nAnalyses>>

(* updateLoad(loadId, field, value).  It sets nothing without a result or
   without a load of that id; otherwise it replaces the load in the loads
   array of result.structure and sets result as updateDimension does. *)
updateLoad(loadId, field, value) ==
    LET found == /\ result # NoResult
                 /\ findIndex(heap[result.structure.arr].loads, loadId) # 0
    IN
    /\ IF found
       THEN LET arr == result.structure.arr
                idx == findIndex(heap[arr].loads, loadId)
                a == LoadArrays(heap[arr], idx, field, value)
            IN  /\ nEdits < MaxEdits
                /\ nEdits' = nEdits + 1
                /\ result' = [result EXCEPT !.structure =
                                [totalLength |-> result.structure.totalLength,
                                 arr |-> arr]]
                /\ heap' = Reachable([heap EXCEPT ![arr] = a], result', result)
       ELSE /\ UNCHANGED <<result, nEdits>>
            /\ heap' = Reachable(heap, result, result)
    /\ last' = Handler("updateLoad", loadId, field, IF found THEN value ELSE 0)
    /\ old' = Snapshot
    /\ prev' = NoPrev
    /\ UNCHANGED origin
    /\ UNCHANGED <<hasApiKey, file, previewUrl, isAnalyzing, isSolving, report,
                   error, analyzeReq, solveReq, nAnalyses>>

(* The view: the upload view while result is null, with
   {error && <div ...>{error}</div>} as its last element; the result view
   otherwise, which has no element that shows error. *)
UploadViewShown == result = NoResult

ErrorNoticeVisible == UploadViewShown /\ error # Null

(* The ids the result view renders a field for (dimensions.map, loads.map). *)
RenderedIds(arr) == {arr[i].id : i \in 1 .. Len(arr)}

(* What the length field can hold as e.target.value: a text, here a sequence
   of tokens.  A numeral token stands for the decimal text of that many
   1/1024ths, "-" is the minus sign, "e" a character no number starts with;
   the empty sequence is the cleared field. *)
Numerals == {ToString(n) : n \in 0 .. MaxNewValue}

NumeralValue(t) == CHOOSE n \in 0 .. MaxNewValue : ToString(n) = t

InputTexts ==
    {<<>>, <<"e">>, <<"-">>, <<"-", "0">>, <<"-", "1">>}
        \cup {<<t>> : t \in Numerals} \cup {<<t, "e">> : t \in Numerals}

(* parseFloat(text): an optional sign and the number the text starts with,
   whatever follows it; NaN when the text starts with no number. *)
parseFloat(text) ==
    LET neg == Len(text) > 0 /\ text[1] = "-"
        rest == IF neg THEN Tail(text) ELSE text
    IN  IF Len(rest) > 0 /\ rest[1] \in Numerals
        THEN [isNaN |-> FALSE,
              value |-> IF neg THEN 0 - NumeralValue(rest[1])
                        ELSE NumeralValue(rest[1])]
        ELSE [isNaN |-> TRUE, value |-> 0]

(* x || 0 for a number x: 0 for the falsy numbers NaN and 0, x otherwise. *)
OrZero(x) == IF x.isNaN \/ x.value = 0 THEN 0 ELSE x.value

(* parseFloat(e.target.value) || 0, the argument the length field passes. *)
LengthInput(text) == OrZero(parseFloat(text))

(* The application as its user drives it: every handler is reached through
   the element that calls it, with the arguments that element passes (the
   load fields call updateLoad with 'magnitude' only).  Edits interleaved
   with the remote calls are followed MaxUIEdits deep. *)
Next ==
    \/ \E f \in Files \cup {Null} : handleFileChange(f)
    \/ handleAnalyze
    \/ \E ok \in BOOLEAN : readerLoadEnd(ok)
    \/ \E s \in Structures : analyzeResolve(s)
    \/ analyzeReject
    \/ handleSolve
    \/ \E text \in {"markdown", ""} : solveResolve(text)
    \/ solveReject
    \/ newAnalysis
    \/ /\ result # NoResult
       /\ nEdits < MaxUIEdits
       /\ \E dimId \in RenderedIds(heap[result.structure.arr].dimensions),
             text \in InputTexts : updateDimension(dimId, LengthInput(text))
    \/ /\ result # NoResult
       /\ nEdits < MaxUIEdits
       /\ \E loadId \in RenderedIds(heap[result.structure.arr].loads),
             value \in LoadValues : updateLoad(loadId, "magnitude", value)

Spec == Init /\ [][Next]_vars

(* The editor alone: a structure is received and then updateDimension and
   updateLoad are called on it with any arguments, those the view never
   passes included (an id no element has, any field of a load). *)
EditorNext ==
    \/ \E f \in Files : handleFileChange(f)
    \/ handleAnalyze
    \/ \E ok \in BOOLEAN : readerLoadEnd(ok)
    \/ \E s \in Structures : analyzeResolve(s)
    \/ /\ nEdits < MaxEdits
       /\ \E dimId \in DimIds \cup {UnknownId}, newValue \in NewValues :
             updateDimension(dimId, newValue)
    \/ /\ nEdits < MaxEdits
       /\ \E loadId \in LoadIds \cup {UnknownId}, field \in LoadFields,
             value \in LoadValues : updateLoad(loadId, field, value)

EditorSpec == Init /\ [][EditorNext]_vars

(* The lengths an edit may ask for when it asks for no negative one. *)
Lengths == {v \in NewValues : v >= 0}

(* Sequences of updateDimension calls with non-negative lengths on a
   structure as it was received, MaxLengthEdits deep. *)
LengthNext ==
    \/ \E f \in Files : handleFileChange(f)
    \/ handleAnalyze
    \/ \E ok \in BOOLEAN : readerLoadEnd(ok)
    \/ \E s \in Structures : analyzeResolve(s)
    \/ \E dimId \in DimIds, newValue \in Lengths :
          updateDimension(dimId, newValue)

LengthSpec == Init /\ [][LengthNext]_vars

----------------------------------------------------------------------------
(* What the claims speak of, read off the state and the state before the
   last handler, without the operators above. *)

(* The structure stored now and the one stored when the last handler began. *)
Now == Deref(heap, result.structure)
Before == old.structure

HasId(arr, id) == \E i \in 1 .. Len(arr) : arr[i].id = id

FirstWithId(arr, id) ==
    CHOOSE i \in 1 .. Len(arr) :
        arr[i].id = id /\ \A j \in 1 .. (i - 1) : arr[j].id # id

(* The last handler was updateDimension and it found its dimension. *)
DimensionEdited ==
    /\ last.op = "updateDimension"
    /\ old.result # NoResult
    /\ HasId(Before.dimensions, last.id)

EditedIndex == FirstWithId(Before.dimensions, last.id)
Pivot == Before.dimensions[EditedIndex].end
Diff == last.value - Before.dimensions[EditedIndex].value

IsMaxPosition(t, nodes) ==
    IF Len(nodes) = 0 THEN t = NegInfinity
    ELSE /\ \E i \in 1 .. Len(nodes) : nodes[i].position = t
         /\ \A i \in 1 .. Len(nodes) : nodes[i].position <= t

(* C1, as claimed: after updateDimension on an existing dimension, every
   node with position < pivot, every other dimension with start < pivot and
   every load with end < pivot is unchanged in every field. *)
C1_Original ==
    DimensionEdited =>
        /\ \A i \in 1 .. Len(Before.nodes) :
              Before.nodes[i].position < Pivot => Now.nodes[i] = Before.nodes[i]
        /\ \A i \in 1 .. Len(Before.dimensions) :
              (i # EditedIndex /\ Before.dimensions[i].start < Pivot)
                  => Now.dimensions[i] = Before.dimensions[i]
        /\ \A i \in 1 .. Len(Before.loads) :
              Before.loads[i].end < Pivot => Now.loads[i] = Before.loads[i]

(* C1, amended: after updateDimension on an existing dimension, every node
   with position < pivot - 0.001, every other dimension with
   start < pivot - 0.001 and every load with both start and end
   < pivot - 0.001 is unchanged in every field. *)
C1_BeforePivotUnchanged ==
    DimensionEdited =>
        /\ \A i \in 1 .. Len(Before.nodes) :
              Before.nodes[i].position < Pivot - EPS
                  => Now.nodes[i] = Before.nodes[i]
        /\ \A i \in 1 .. Len(Before.dimensions) :
              (i # EditedIndex /\ Before.dimensions[i].start < Pivot - EPS)
                  => Now.dimensions[i] = Before.dimensions[i]
        /\ \A i \in 1 .. Len(Before.loads) :
              (Before.loads[i].start < Pivot - EPS
               /\ Before.loads[i].end < Pivot - EPS)
                  => Now.loads[i] = Before.loads[i]

(* An edit that moved a node while a node, another dimension and a load lay
   before the pivot. *)
C1_Witness ==
    /\ DimensionEdited
    /\ Diff # 0
    /\ \E i \in 1 .. Len(Before.nodes) : Before.nodes[i].position < Pivot - EPS
    /\ \E i \in 1 .. Len(Before.nodes) : Now.nodes[i] # Before.nodes[i]
    /\ \E i \in 1 .. Len(Before.dimensions) :
          i # EditedIndex /\ Before.dimensions[i].start < Pivot - EPS
    /\ \E i \in 1 .. Len(Before.loads) :
          Before.loads[i].start < Pivot - EPS /\ Before.loads[i].end < Pivot - EPS

(* C2: after updateDimension on an existing dimension, a load with
   start >= pivot - 0.001 has start and end increased by diff, a load with
   start < pivot - 0.001 and end >= pivot - 0.001 has only its end increased
   by diff, and every other load is unchanged: the test l.start < pivotX of
   the code plays no part. *)
C2_LoadClassification ==
    DimensionEdited =>
        /\ Len(Now.loads) = Len(Before.loads)
        /\ \A i \in 1 .. Len(Before.loads) :
              LET l == Before.loads[i]
                  m == Now.loads[i]
              IN  IF l.start >= Pivot - EPS
                  THEN m = [l EXCEPT !.start = l.start + Diff, !.end = l.end + Diff]
                  ELSE IF l.end >= Pivot - EPS
                       THEN m = [l EXCEPT !.end = l.end + Diff]
                       ELSE m = l

(* An edit with a load of each of the three kinds. *)
C2_Witness ==
    /\ DimensionEdited
    /\ Diff # 0
    /\ \E i \in 1 .. Len(Before.loads) : Before.loads[i].start >= Pivot - EPS
    /\ \E i \in 1 .. Len(Before.loads) :
          Before.loads[i].start < Pivot - EPS /\ Before.loads[i].end >= Pivot - EPS
    /\ \E i \in 1 .. Len(Before.loads) :
          Before.loads[i].start < Pivot - EPS /\ Before.loads[i].end < Pivot - EPS

(* C3: after every updateDimension that found its dimension, totalLength is
   the greatest node position of the resulting structure (Math.max of no
   position, -Infinity, when there is no node). *)
C3_TotalLengthIsMax ==
    DimensionEdited => IsMaxPosition(Now.totalLength, Now.nodes)

(* An edit that moved a node to the left of a node it did not move, which
   now holds the greatest position. *)
C3_Witness ==
    /\ DimensionEdited
    /\ \E i, j \in 1 .. Len(Before.nodes) :
          /\ Now.nodes[i] # Before.nodes[i]
          /\ Now.nodes[j] = Before.nodes[j]
          /\ Before.nodes[j].position < Before.nodes[i].position
          /\ Now.nodes[i].position < Now.nodes[j].position
          /\ Now.totalLength = Now.nodes[j].position

(* C4, as claimed: updateDimension(d.id, d.value) on an existing dimension
   yields a structure equal to the input in every field, whatever the input
   was. *)
C4_Original ==
    (DimensionEdited /\ Diff = 0) => Now = Before

(* C4, amended: updateDimension(d.id, d.value) on an existing dimension with
   d.end = d.start + d.value, in a structure whose totalLength is the
   greatest node position, yields a structure equal to the input in every
   field. *)
C4_ZeroDiffIsIdentity ==
    (/\ DimensionEdited
     /\ Diff = 0
     /\ Before.dimensions[EditedIndex].end
            = Before.dimensions[EditedIndex].start + Before.dimensions[EditedIndex].value
     /\ IsMaxPosition(Before.totalLength, Before.nodes))
        => Now = Before

(* A zero-diff edit of a consistent dimension that does not start at 0, with
   geometry at and after its end. *)
C4_Witness ==
    /\ DimensionEdited
    /\ Diff = 0
    /\ Before.dimensions[EditedIndex].start # 0
    /\ Before.dimensions[EditedIndex].end
            = Before.dimensions[EditedIndex].start + Before.dimensions[EditedIndex].value
    /\ IsMaxPosition(Before.totalLength, Before.nodes)
    /\ \E i \in 1 .. Len(Before.nodes) : Before.nodes[i].position >= Pivot - EPS
    /\ Now = Before

(* C5: updateDimension with an id no dimension of the structure has leaves
   nodes, loads, dimensions, totalLength and the stored result as they were,
   and signals no error. *)
C5_UnknownDimensionNoOp ==
    (/\ last.op = "updateDimension"
     /\ old.result # NoResult
     /\ ~HasId(Before.dimensions, last.id))
        => /\ result = old.result
           /\ Now = Before
           /\ error = old.error
           /\ report = old.report
           /\ file = old.file
           /\ previewUrl = old.previewUrl

(* updateDimension was called with the unknown id on a stored structure that
   has dimensions. *)
C5_Witness ==
    /\ last.op = "updateDimension"
    /\ last.id = UnknownId
    /\ old.result # NoResult
    /\ Len(Before.dimensions) > 0
    /\ ~HasId(Before.dimensions, last.id)

(* C6: updateDimension and updateLoad do not modify the structure held in
   state before the call: read through a reference to it afterwards, it
   still holds the geometry it held when the call began. *)
C6_PreviousStructureIntact ==
    (/\ last.op \in {"updateDimension", "updateLoad"}
     /\ old.result # NoResult)
        => Deref(heap, old.result.structure) = Before

(* The last handler was updateLoad and it found its load. *)
LoadEdited ==
    /\ last.op = "updateLoad"
    /\ old.result # NoResult
    /\ HasId(Before.loads, last.id)

(* C7: updateLoad sets the one field of the (first) load with the id and
   leaves the load's other fields, the other loads, the nodes, the
   dimensions and totalLength as they were; with no load of that id the
   state is as it was. *)
C7_UpdateLoadFrame ==
    /\ LoadEdited =>
          LET idx == FirstWithId(Before.loads, last.id) IN
          /\ Now.loads[idx][last.field] = last.value
          /\ \A f \in (DOMAIN Before.loads[idx]) \ {last.field} :
                Now.loads[idx][f] = Before.loads[idx][f]
          /\ DOMAIN Now.loads[idx] = DOMAIN Before.loads[idx]
          /\ Len(Now.loads) = Len(Before.loads)
          /\ \A i \in (1 .. Len(Before.loads)) \ {idx} :
                Now.loads[i] = Before.loads[i]
          /\ Now.nodes = Before.nodes
          /\ Now.dimensions = Before.dimensions
          /\ Now.totalLength = Before.totalLength
    /\ (/\ last.op = "updateLoad"
        /\ old.result # NoResult
        /\ ~HasId(Before.loads, last.id))
          => /\ result = old.result
             /\ Now = Before
             /\ error = old.error
             /\ report = old.report

(* updateLoad changed a field other than magnitude of one load among
   several. *)
C7_Witness ==
    /\ LoadEdited
    /\ last.field = "end"
    /\ Len(Before.loads) > 1
    /\ Now.loads[FirstWithId(Before.loads, last.id)]
           # Before.loads[FirstWithId(Before.loads, last.id)]

(* C8: when a remote call fails, the stored result and its structure are
   what they were when the failure arrived (so: what they were at the click
   plus the local edits since), the failed request is gone and none takes
   its place; a request comes into being only in the click handler of its
   button, one per click. *)
C8_FailureKeepsStructureNoRetry ==
    /\ last.op \in {"solveReject", "analyzeReject"} =>
          /\ result = old.result
          /\ result # NoResult => Now = Before
    /\ last.op = "solveReject" =>
          solveReq = NoRequest /\ analyzeReq = old.analyzeReq
    /\ last.op = "analyzeReject" =>
          analyzeReq = NoRequest /\ solveReq = old.solveReq
    /\ (solveReq # NoRequest /\ solveReq # old.solveReq) =>
          last.op = "handleSolve" /\ old.solveReq = NoRequest
    /\ (analyzeReq # NoRequest /\ old.analyzeReq = NoRequest) =>
          last.op = "handleAnalyze"

(* A report request failed for a structure that was edited while the
   request was in flight. *)
C8_Witness ==
    /\ last.op = "solveReject"
    /\ result # NoResult
    /\ old.solveReq.arr = result.structure.arr
    /\ old.solveReq.edits < nEdits
    /\ error = "Failed to generate report."

(* C9: after every failure of a remote call a failure notice is visible in
   the view the user is shown. *)
C9_FailureNoticeVisible ==
    last.op \in {"solveReject", "analyzeReject"} => ErrorNoticeVisible

(* C10: right after 'New Analysis' result, file, preview, report and error
   are back to their initial values, and a result is stored again only by
   an analyze request completing. *)
C10_NewAnalysisResets ==
    /\ last.op = "newAnalysis" =>
          /\ result = NoResult
          /\ file = Null
          /\ previewUrl = NoPreview
          /\ report = NoReport
          /\ error = Null
    /\ (result # NoResult /\ old.result = NoResult) => last.op = "analyzeResolve"

(* C11: every length that reaches updateDimension from the length field is
   non-negative, so after an edit made through the field the value applied
   is >= 0 and the edited dimension has value >= 0 and end >= start. *)
C11_NoNegativeLength ==
    DimensionEdited =>
        /\ last.value >= 0
        /\ Now.dimensions[EditedIndex].value >= 0
        /\ Now.dimensions[EditedIndex].end >= Now.dimensions[EditedIndex].start

(* Dimension spans that are contiguous: each value is end - start and each
   start is the end of the dimension before it. *)
Contiguous(dims) ==
    \A i \in 1 .. Len(dims) :
        /\ dims[i].value = dims[i].end - dims[i].start
        /\ i > 1 => dims[i].start = dims[i - 1].end

(* C12: starting from a structure whose dimensions are contiguous, after any
   sequence of updateDimension calls with non-negative lengths the
   dimensions are still contiguous, in the same order. *)
C12_ContiguityKept ==
    (result # NoResult /\ Contiguous(origin.dimensions))
        => Contiguous(Now.dimensions)

(* Nodes no two of which share a position. *)
DistinctPositions(nodes) ==
    \A i, j \in 1 .. Len(nodes) :
        i # j => nodes[i].position # nodes[j].position

(* C13: starting from a structure in which distinct nodes have distinct
   positions, after any sequence of updateDimension calls with non-negative
   lengths no two distinct nodes share a position. *)
C13_NodePositionsUnique ==
    (result # NoResult /\ DistinctPositions(origin.nodes))
        => DistinctPositions(Now.nodes)

(* C14: after updateDimension(dimId, newValue) on an existing dimension,
   that dimension has value = newValue, end = its old start + newValue and
   its old start (and is otherwise as it was): the pass over the other
   dimensions never shifts it, not even when its own start is
   >= pivot - 0.001. *)
C14_EditedDimension ==
    DimensionEdited =>
        LET was == Before.dimensions[EditedIndex]
            is == Now.dimensions[EditedIndex]
        IN  /\ is.value = last.value
            /\ is.end = was.start + last.value
            /\ is.start = was.start
            /\ is.id = was.id
            /\ Len(Now.dimensions) = Len(Before.dimensions)

(* An edit that changed the length of a dimension whose own start was within
   the tolerance of its end (a zero-length dimension). *)
C14_Witness ==
    /\ DimensionEdited
    /\ Diff # 0
    /\ Before.dimensions[EditedIndex].start >= Pivot - EPS
    /\ Now.dimensions[EditedIndex].start = Before.dimensions[EditedIndex].start
    /\ Now.dimensions[EditedIndex].end # Before.dimensions[EditedIndex].end

(* C15: in updateDimension, every dimension other than the edited one whose
   start >= pivot - 0.001 has start and end increased by exactly diff and
   its value unchanged, and every node whose position >= pivot - 0.001 has
   its position increased by exactly diff (once, not once per pass), pivot
   being the edited dimension's end before the edit. *)
C15_ShiftedByDiff ==
    DimensionEdited =>
        /\ \A i \in 1 .. Len(Before.dimensions) :
              (i # EditedIndex /\ Before.dimensions[i].start >= Pivot - EPS)
                  => /\ Now.dimensions[i].start = Before.dimensions[i].start + Diff
                     /\ Now.dimensions[i].end = Before.dimensions[i].end + Diff
                     /\ Now.dimensions[i].value = Before.dimensions[i].value
        /\ \A i \in 1 .. Len(Before.nodes) :
              Before.nodes[i].position >= Pivot - EPS
                  => Now.nodes[i].position = Before.nodes[i].position + Diff

(* An edit with diff # 0 that had another dimension at pivot - 0.001 exactly
   and a node at pivot - 0.001 exactly, and a node beyond the pivot. *)
C15_Witness ==
    /\ DimensionEdited
    /\ Diff # 0
    /\ \E i \in 1 .. Len(Before.dimensions) :
          /\ i # EditedIndex
          /\ Before.dimensions[i].start = Pivot - EPS
          /\ Now.dimensions[i].start = Before.dimensions[i].start + Diff
    /\ \E i \in 1 .. Len(Before.nodes) :
          /\ Before.nodes[i].position = Pivot - EPS
          /\ Now.nodes[i].position = Before.nodes[i].position + Diff
    /\ \E i \in 1 .. Len(Before.nodes) :
          /\ Before.nodes[i].position > Pivot
          /\ Now.nodes[i].position = Before.nodes[i].position + Diff

(* A structure whose dimensions are aligned to its nodes: every dimension
   starts and ends at a node, and totalLength is the last node's position. *)
Aligned(st) ==
    /\ \A i \in 1 .. Len(st.dimensions) :
          /\ \E k \in 1 .. Len(st.nodes) :
                st.nodes[k].position = st.dimensions[i].start
          /\ \E k \in 1 .. Len(st.nodes) :
                st.nodes[k].position = st.dimensions[i].end
    /\ IsMaxPosition(st.totalLength, st.nodes)

(* The last two handlers were updateDimension on one dimension, the first
   with a non-negative length and the second with the value the dimension
   had before the first. *)
EditedAndBack ==
    /\ prev # NoPrev
    /\ DimensionEdited
    /\ prev.last.id = last.id
    /\ prev.last.value >= 0
    /\ last.value =
          prev.structure.dimensions[FirstWithId(prev.structure.dimensions,
                                                last.id)].value

(* C16: for a structure with contiguous dimensions aligned to its nodes,
   editing a dimension from its value v to a non-negative w and then back to
   v restores the structure exactly: node positions, load extents, dimension
   spans and totalLength. *)
C16_EditAndBackRestores ==
    (/\ EditedAndBack
     /\ Contiguous(prev.structure.dimensions)
     /\ Aligned(prev.structure))
        => Now = prev.structure

(* Load extents that are well formed: start <= end, and start = end for a
   point load and for a moment. *)
WellFormedLoads(loads) ==
    \A i \in 1 .. Len(loads) :
        /\ loads[i].start <= loads[i].end
        /\ loads[i].type \in {"POINT", "MOMENT"}
              => loads[i].start = loads[i].end

(* C17: starting from a structure whose loads are well formed, after any
   sequence of updateDimension calls with non-negative lengths every load
   still has start <= end and every point load or moment start = end. *)
C17_LoadsWellFormed ==
    (result # NoResult /\ WellFormedLoads(origin.loads))
        => WellFormedLoads(Now.loads)

(* C18: a report stored together with a result was requested for the
   structure of that result's analysis, never for the result of an earlier
   analysis. *)
C18_ReportOfStoredResult ==
    (result # NoResult /\ report # NoReport)
        => report.request.arr = result.structure.arr

(* C19: the stored result was produced from the file that is selected now:
   whenever result is non-null, it is the analysis of file, whose preview is
   shown. *)
C19_ResultOfSelectedFile ==
    result # NoResult
        => /\ file # Null
           /\ result.latexCode = <<"tikz", file>>
           /\ previewUrl = createObjectURL(file)

====
